---- MODULE Spec2Model ----
(***************************************************************************)
(* animoji: a still image is turned into an animated GIF.  main() parses   *)
(* the flags, validates them, loads and optionally resizes the image,      *)
(* builds one palette, generates frameCount frames by applying the chain   *)
(* of effects to the image, optionally reverses the frames, sets the       *)
(* per-frame delay and hands the animation to the GIF encoder.             *)
(*                                                                         *)
(* Images are 8-bit RGBA pixel grids (image.RGBA); a colour is the tuple   *)
(* <<r, g, b, a>>.  float64 arithmetic of the source is modelled as exact  *)
(* rational arithmetic on integers.                                        *)
(***************************************************************************)
EXTENDS Integers, Sequences, FiniteSets, TLC

VARIABLES
    pc,           \* position of main()
    subcommands,  \* flag.Args(): the effect chain
    frameCount,   \* -frames
    rate,         \* -rate
    reverse,      \* -reverse
    resize,       \* -resize
    source,       \* what -in (or stdin) holds: a decodable image or not
    img,          \* main's img
    palette,      \* main's palette
    frames,       \* main's frames slice
    i,            \* frame index of the outer loop
    k,            \* position in subcommands of the inner loop (1-based)
    currentImg,   \* main's currentImg
    anim,         \* the gif.GIF handed to the encoder
    output,       \* what the encode/write step did to -out (or stdout)
    stderr,       \* the error reported, if any
    calls,        \* how often main called loadImage, resizeImage, createPalette, ...
    lib,          \* a function called on its own: its argument and result
    coords        \* where the float64 arithmetic of kaleidoscope and ripple lands

vars == <<pc, subcommands, frameCount, rate, reverse, resize, source, img,
          palette, frames, i, k, currentImg, anim, output, stderr, calls, lib, coords>>

\* The nil of a pointer or interface value, the nil error and the empty palette.
Nil == [nil |-> TRUE]
NoError == "nil"
NoPalette == <<>>

-----------------------------------------------------------------------------
(* Colours and images *)

Transparent == <<0, 0, 0, 0>>
White == <<255, 255, 255, 255>>
Black == <<0, 0, 0, 255>>
Red == <<255, 0, 0, 255>>
Green == <<0, 255, 0, 255>>
Blue == <<0, 0, 255, 255>>
Grey == <<128, 128, 128, 255>>

\* image.Image: bounds (Min at minX, minY; Dx = w, Dy = h) and the pixels in
\* row-major order.
MkImage(minX, minY, w, h, pix) ==
    [minX |-> minX, minY |-> minY, w |-> w, h |-> h, pix |-> pix]

InBounds(im, x, y) ==
    /\ x >= im.minX /\ x < im.minX + im.w
    /\ y >= im.minY /\ y < im.minY + im.h

Offset(im, x, y) == (y - im.minY) * im.w + (x - im.minX) + 1

\* img.At(x, y); the zero colour outside the bounds, as image.RGBA does.
At(im, x, y) == IF InBounds(im, x, y) THEN im.pix[Offset(im, x, y)] ELSE Transparent

\* image.NewRGBA(bounds): every pixel zero.
NewRGBA(minX, minY, w, h) ==
    MkImage(minX, minY, w, h, [n \in 1..(w * h) |-> Transparent])

\* The image with the given bounds whose pixel at (x, y) is F(x, y): the
\* result of a loop over the points of the bounds that decides each pixel once.
XOf(im, n) == im.minX + ((n - 1) % im.w)
YOf(im, n) == im.minY + ((n - 1) \div im.w)

FromPoints(minX, minY, w, h, F(_, _)) ==
    LET shape == MkImage(minX, minY, w, h, <<>>)
    IN  MkImage(minX, minY, w, h,
                [n \in 1..(w * h) |-> F(XOf(shape, n), YOf(shape, n))])

-----------------------------------------------------------------------------
(* createPalette *)

PaletteCap == 256
SampleStep == 4

\* An inner loop that stops only after the palette exceeds PaletteCap.
RECURSIVE ScanRowLateStop(_, _, _, _)
ScanRowLateStop(im, x, y, st) ==
    IF x >= im.minX + im.w THEN st
    ELSE LET c == At(im, x, y)
         IN  IF c \notin st.paletteMap
             THEN LET st2 == [palette |-> Append(st.palette, c),
                              paletteMap |-> st.paletteMap \cup {c}]
                  IN  IF Len(st2.palette) > PaletteCap
                      THEN st2
                      ELSE ScanRowLateStop(im, x + SampleStep, y, st2)
             ELSE ScanRowLateStop(im, x + SampleStep, y, st)

\* The inner loop of createPalette from column x of row y: st is
\* [palette, paletteMap].  It stops at the end of the row or as soon as the
\* palette holds PaletteCap colours.
RECURSIVE ScanRow(_, _, _, _)
ScanRow(im, x, y, st) ==
    IF x >= im.minX + im.w THEN st
    ELSE LET c == At(im, x, y)
         IN  IF c \notin st.paletteMap
             THEN LET st2 == [palette |-> Append(st.palette, c),
                              paletteMap |-> st.paletteMap \cup {c}]
                  IN  IF Len(st2.palette) >= PaletteCap
                      THEN st2
                      ELSE ScanRow(im, x + SampleStep, y, st2)
             ELSE ScanRow(im, x + SampleStep, y, st)

\* The outer loop of createPalette from row y.
RECURSIVE ScanRows(_, _, _)
ScanRows(im, y, st) ==
    IF y >= im.minY + im.h THEN st
    ELSE LET st2 == ScanRow(im, im.minX, y, st)
         IN  IF Len(st2.palette) >= PaletteCap
             THEN st2
             ELSE ScanRows(im, y + SampleStep, st2)

createPalette(im) ==
    LET st == ScanRows(im, im.minY, [palette |-> <<>>, paletteMap |-> {}])
    IN  IF Len(st.palette) = 0 THEN <<White, Black>> ELSE st.palette

-----------------------------------------------------------------------------
(* Quantization: draw.Draw of an RGBA image into an image.Paletted *)

\* The distance drawPaletted minimises is the sum over the four channels of
\* sqDiff(x, y) = ((x - y)^2) >> 2 on the 16-bit channel values x = 257 * c.
\* (257 * d)^2 >> 2 = 16512 * d^2 + d^2 \div 4, and the sum of four of them
\* exceeds 2^31, so the sum 16512 * S + T is kept as the pair
\* <<S + T \div 16512, T % 16512>>, which orders as the sum does.
Sq(d) == d * d

ColourDist(c, p) ==
    LET S == Sq(c[1] - p[1]) + Sq(c[2] - p[2]) + Sq(c[3] - p[3]) + Sq(c[4] - p[4])
        T == (Sq(c[1] - p[1]) \div 4) + (Sq(c[2] - p[2]) \div 4)
             + (Sq(c[3] - p[3]) \div 4) + (Sq(c[4] - p[4]) \div 4)
    IN  <<S + (T \div 16512), T % 16512>>

DistLess(a, b) == a[1] < b[1] \/ (a[1] = b[1] /\ a[2] < b[2])

\* The palette search of drawPaletted: the first entry of least distance
\* (0-based, as stored in Paletted.Pix).
RECURSIVE NearestFrom(_, _, _, _)
NearestFrom(pal, c, n, best) ==
    IF n > Len(pal) THEN best
    ELSE IF DistLess(ColourDist(c, pal[n]), ColourDist(c, pal[best + 1]))
         THEN NearestFrom(pal, c, n + 1, n - 1)
         ELSE NearestFrom(pal, c, n + 1, best)

PaletteIndex(pal, c) == NearestFrom(pal, c, 2, 0)

\* A quantization that stores the position of the colour counted from 1.
QuantizeFromOne(im, pal) ==
    [minX |-> im.minX, minY |-> im.minY, w |-> im.w, h |-> im.h,
     pix |-> [n \in 1..(im.w * im.h) |-> PaletteIndex(pal, im.pix[n]) + 1],
     palette |-> pal]

\* image.NewPaletted(bounds, palette) filled by draw.Draw(..., draw.Src):
\* every pixel is the index of the nearest palette colour.
Quantize(im, pal) ==
    [minX |-> im.minX, minY |-> im.minY, w |-> im.w, h |-> im.h,
     pix |-> [n \in 1..(im.w * im.h) |-> PaletteIndex(pal, im.pix[n])],
     palette |-> pal]

-----------------------------------------------------------------------------
(* Effects: applyEffectToFrame and the functions it calls *)

\* A blend that adds the tint at full strength to the source at full
\* strength, in 8 bits.
BlendChannelAdded(srcC, tintC) == (srcC + tintC) % 256

\* The blend of applyTint and applyTintToRegion at opacity 0.5:
\* uint8(float64(src) * 0.5 + tint * 0.5) per colour channel (the halves are
\* exact in float64, the conversion truncates and keeps 8 bits); alpha is
\* copied.
BlendChannel(srcC, tintC) == ((srcC + tintC) \div 2) % 256

Blend(c, tint) ==
    <<BlendChannel(c[1], tint[1]), BlendChannel(c[2], tint[2]),
      BlendChannel(c[3], tint[3]), c[4]>>

\* What applyTintToRegion leaves at the point (x, y) of dst, which held dstC
\* before: inside [startX, endX) x [startY, endY) the blend of the src pixel
\* with tintColor, outside it dstC.
TintRegionAt(dstC, src, tintColor, startX, endX, startY, endY, x, y) ==
    IF x >= startX /\ x < endX /\ y >= startY /\ y < endY
    THEN Blend(At(src, x, y), tintColor)
    ELSE dstC

\* applyTintToRegion(dst, src, tintColor, startX, endX, startY, endY).
applyTintToRegion(dst, src, tintColor, startX, endX, startY, endY) ==
    LET P(x, y) == TintRegionAt(At(dst, x, y), src, tintColor,
                                startX, endX, startY, endY, x, y)
    IN  FromPoints(dst.minX, dst.minY, dst.w, dst.h, P)

\* The four highlighter colours of the vibes effect, 0-based as in the code.
VibesColors == <<<<255, 20, 147, 255>>, <<255, 255, 0, 255>>,
                 <<50, 255, 50, 255>>, <<0, 200, 255, 255>>>>

\* Quarters split at the halves rounded up.
QuarterRegionRoundedUp(im, quarter) ==
    LET midX == im.minX + ((im.w + 1) \div 2)
        midY == im.minY + ((im.h + 1) \div 2)
        maxX == im.minX + im.w
        maxY == im.minY + im.h
    IN  CASE quarter = 0 -> <<im.minX, midX, im.minY, midY>>
          [] quarter = 1 -> <<midX, maxX, im.minY, midY>>
          [] quarter = 2 -> <<im.minX, midX, midY, maxY>>
          [] quarter = 3 -> <<midX, maxX, midY, maxY>>

\* The region of a quarter: [startX, endX, startY, endY].
QuarterRegion(im, quarter) ==
    LET midX == im.minX + (im.w \div 2)
        midY == im.minY + (im.h \div 2)
        maxX == im.minX + im.w
        maxY == im.minY + im.h
    IN  CASE quarter = 0 -> <<im.minX, midX, im.minY, midY>>
          [] quarter = 1 -> <<midX, maxX, im.minY, midY>>
          [] quarter = 2 -> <<im.minX, midX, midY, maxY>>
          [] quarter = 3 -> <<midX, maxX, midY, maxY>>

\* The loop over the quarters of the "vibes" case, from quarter q on, seen
\* at the point (x, y) of result, which holds resultC before quarter q.
RECURSIVE VibesFrom(_, _, _, _, _, _)
VibesFrom(resultC, im, frameIdx, q, x, y) ==
    IF q >= 4 THEN resultC
    ELSE LET colorIndex == (frameIdx + q) % 4
             reg == QuarterRegion(im, q)
         IN  VibesFrom(TintRegionAt(resultC, im, VibesColors[colorIndex + 1],
                                    reg[1], reg[2], reg[3], reg[4], x, y),
                       im, frameIdx, q + 1, x, y)

\* The "vibes" case: result starts as a copy of img and has applyTintToRegion
\* applied to it once per quarter.
applyVibes(im, frameIdx) ==
    LET P(x, y) == VibesFrom(At(im, x, y), im, frameIdx, 0, x, y)
    IN  FromPoints(im.minX, im.minY, im.w, im.h, P)

-----------------------------------------------------------------------------
(* float64 values as exact rationals <<numerator, denominator>>, the
   denominator positive and the fraction in lowest terms *)

Abs(n) == IF n < 0 THEN -n ELSE n

RECURSIVE GCD(_, _)
GCD(a, b) == IF b = 0 THEN a ELSE GCD(b, a % b)

Rat(n, d) ==
    LET g == GCD(Abs(n), d)
    IN  IF g = 0 THEN <<0, 1>> ELSE <<n \div g, d \div g>>

RInt(n) == <<n, 1>>
RAdd(a, b) == Rat(a[1] * b[2] + b[1] * a[2], a[2] * b[2])
RSub(a, b) == Rat(a[1] * b[2] - b[1] * a[2], a[2] * b[2])
RMul(a, b) == Rat(a[1] * b[1], a[2] * b[2])
\* a / b for b # 0.
RDiv(a, b) == IF b[1] < 0 THEN Rat(-(a[1] * b[2]), -(a[2] * b[1])) ELSE Rat(a[1] * b[2], a[2] * b[1])
RMin(a, b) == IF b[1] * a[2] < a[1] * b[2] THEN b ELSE a
RLess(a, b) == a[1] * b[2] < b[1] * a[2]
RLeq(a, b) == a[1] * b[2] <= b[1] * a[2]
RAbs(a) == <<Abs(a[1]), a[2]>>
\* math.Mod(a, m) for a >= 0 and an integer m > 0.
RMod(a, m) == Rat(a[1] % (m * a[2]), a[2])
\* int(a) for a >= 0, and math.Ceil.
RFloor(a) == a[1] \div a[2]
RCeil(a) == -((-a[1]) \div a[2])
\* math.Round(a) for a >= 0: halves round away from zero.
RRound(a) == (2 * a[1] + a[2]) \div (2 * a[2])

-----------------------------------------------------------------------------
(* Colour model *)

\* hsvToRGB(h, s, v) for rationals h in [0, 360), s and v in [0, 1].  Where
\* the exact value of a channel ends in a half, math.Round of the float64
\* value may fall on either side; here the half rounds away from zero.
hsvToRGB(h, s, v) ==
    LET c == RMul(v, s)
        x == RMul(c, RSub(RInt(1), RAbs(RSub(RMod(Rat(h[1], 60 * h[2]), 2), RInt(1)))))
        m == RSub(v, c)
        zero == RInt(0)
        rgbf == CASE RLess(h, RInt(60)) -> <<c, x, zero>>
                  [] ~RLess(h, RInt(60)) /\ RLess(h, RInt(120)) -> <<x, c, zero>>
                  [] ~RLess(h, RInt(120)) /\ RLess(h, RInt(180)) -> <<zero, c, x>>
                  [] ~RLess(h, RInt(180)) /\ RLess(h, RInt(240)) -> <<zero, x, c>>
                  [] ~RLess(h, RInt(240)) /\ RLess(h, RInt(300)) -> <<x, zero, c>>
                  [] OTHER -> <<c, zero, x>>
        Channel(f) == RRound(RMul(RAdd(f, m), RInt(255)))
    IN  <<Channel(rgbf[1]), Channel(rgbf[2]), Channel(rgbf[3])>>

\* rgbToHSV whose hue, where red is the greatest channel, is 60 * (g - b) /
\* delta as it stands: negative between magenta and red.
rgbToHSVNoWrap(r, g, b) ==
    LET max8 == IF r >= g /\ r >= b THEN r ELSE IF g >= b THEN g ELSE b
        min8 == IF r <= g /\ r <= b THEN r ELSE IF g <= b THEN g ELSE b
        delta8 == max8 - min8
    IN  <<IF delta8 = 0 THEN <<0, 1>>
          ELSE IF max8 = r THEN Rat(60 * (g - b), delta8)
          ELSE IF max8 = g THEN Rat(60 * ((b - r) + 2 * delta8), delta8)
          ELSE Rat(60 * ((r - g) + 4 * delta8), delta8),
          IF max8 = 0 THEN <<0, 1>> ELSE Rat(delta8, max8),
          Rat(max8, 255)>>

\* rgbToHSV(r, g, b): h in [0, 360), s and v in [0, 1], as <<h, s, v>>.
\* With rf = r / 255 and so on, max, min and delta are max8 / 255, min8 / 255
\* and delta8 / 255, so the quotients by delta are quotients of integers:
\* s = delta8 / max8, and h is 60 times ((g - b) / delta8 + 6) mod 6,
\* (b - r) / delta8 + 2 or (r - g) / delta8 + 4, never negative.
rgbToHSV(r, g, b) ==
    LET max8 == IF r >= g /\ r >= b THEN r ELSE IF g >= b THEN g ELSE b
        min8 == IF r <= g /\ r <= b THEN r ELSE IF g <= b THEN g ELSE b
        delta8 == max8 - min8
    IN  <<IF delta8 = 0 THEN <<0, 1>>
          ELSE IF max8 = r THEN Rat(60 * (((g - b) + 6 * delta8) % (6 * delta8)), delta8)
          ELSE IF max8 = g THEN Rat(60 * ((b - r) + 2 * delta8), delta8)
          ELSE Rat(60 * ((r - g) + 4 * delta8), delta8),
          IF max8 = 0 THEN <<0, 1>> ELSE Rat(delta8, max8),
          Rat(max8, 255)>>

\* applyHueShift: every pixel keeps its alpha, saturation and value and has
\* its hue moved by hueShift (a rational >= 0) modulo 360.
applyHueShift(im, hueShift) ==
    LET P(x, y) ==
            LET c == At(im, x, y)
                hsv == rgbToHSV(c[1], c[2], c[3])
                h == RMod(RAdd(hsv[1], hueShift), 360)
                rgb == hsvToRGB(h, hsv[2], hsv[3])
            IN  <<rgb[1], rgb[2], rgb[3], c[4]>>
    IN  FromPoints(im.minX, im.minY, im.w, im.h, P)

\* applyTint: every pixel is blended with hsvToRGB(hue, 1, 1).
applyTint(im, hue) ==
    LET rgb == hsvToRGB(hue, RInt(1), RInt(1))
        tint == <<rgb[1], rgb[2], rgb[3], 255>>
        P(x, y) == Blend(At(im, x, y), tint)
    IN  FromPoints(im.minX, im.minY, im.w, im.h, P)

-----------------------------------------------------------------------------
(* Rotation.  The angle frameIdx * 2 * pi / frameCount is kept as a number
   of twelfths of a turn; for these angles cos and sin are (a + b * sqrt(3)) / 2
   with integers a and b, kept as <<a, b>>, and the arithmetic of
   drawRotatedImage is carried out exactly. *)

TwelfthTurns(frameIdx, fc) == ((12 * frameIdx) \div fc) % 12

Cos2(t) ==
    <<<<2, 0>>, <<0, 1>>, <<1, 0>>, <<0, 0>>, <<-1, 0>>, <<0, -1>>,
      <<-2, 0>>, <<0, -1>>, <<-1, 0>>, <<0, 0>>, <<1, 0>>, <<0, 1>>>>[(t % 12) + 1]

Sin2(t) == Cos2(t + 9)

\* floor(b * sqrt(3)) for an integer b.
FloorSqrt3(b) ==
    LET r == CHOOSE n \in 0..(2 * Abs(b)) : n * n <= 3 * b * b /\ 3 * b * b < (n + 1) * (n + 1)
    IN  IF b >= 0 THEN r ELSE -r - 1

\* drawRotatedImage(dst, src, cx, cy, angle) on a fresh dst with the bounds of
\* src; cx2 and cy2 are 2 * cx and 2 * cy, angle is in twelfths of a turn.
\* With dx = dx2 / 2 and cos = (c[1] + c[2] * sqrt(3)) / 2, the source
\* coordinate sx = dx * cos + dy * sin + srcWidth / 2 is (sxA + sxB * sqrt(3)) / 4.
drawRotatedImage(src, cx2, cy2, angle) ==
    LET c == Cos2(angle)
        sn == Sin2(angle)
        P(x, y) ==
            LET dx2 == 2 * x - cx2
                dy2 == 2 * y - cy2
                sx4 == dx2 * c[1] + dy2 * sn[1] + 2 * src.w
                       + FloorSqrt3(dx2 * c[2] + dy2 * sn[2])
                sy4 == dy2 * c[1] - dx2 * sn[1] + 2 * src.h
                       + FloorSqrt3(dy2 * c[2] - dx2 * sn[2])
            IN  IF /\ x >= 0 /\ x < src.w /\ y >= 0 /\ y < src.h
                   /\ sx4 >= 0 /\ sx4 < 4 * src.w /\ sy4 >= 0 /\ sy4 < 4 * src.h
                THEN At(src, (sx4 \div 4) + src.minX, (sy4 \div 4) + src.minY)
                ELSE Transparent
    IN  FromPoints(src.minX, src.minY, src.w, src.h, P)

-----------------------------------------------------------------------------
(* resizeImage *)

Min2(a, b) == IF a < b THEN a ELSE b

\* resizeImage with the target height rounded to the nearest integer.
resizeImageRounded(im, targetWidth) ==
    IF im.w = 0 \/ im.h = 0
    THEN [err |-> "source image has zero dimensions"]
    ELSE LET targetHeight == (2 * targetWidth * im.h + im.w) \div (2 * im.w)
             P(x, y) ==
                 LET srcX == Min2((x * im.w) \div targetWidth, im.w - 1)
                     srcY == Min2((y * im.h) \div targetHeight, im.h - 1)
                 IN  At(im, srcX + im.minX, srcY + im.minY)
         IN  [err |-> NoError, img |-> FromPoints(0, 0, targetWidth, targetHeight, P)]

\* resizeImage(img, targetWidth): an error for an empty source, else the
\* nearest-neighbour resampling at Rect(0, 0, targetWidth, targetHeight).
resizeImage(im, targetWidth) ==
    IF im.w = 0 \/ im.h = 0
    THEN [err |-> "source image has zero dimensions"]
    ELSE LET targetHeight == (targetWidth * im.h) \div im.w
             P(x, y) ==
                 LET srcX == Min2((x * im.w) \div targetWidth, im.w - 1)
                     srcY == Min2((y * im.h) \div targetHeight, im.h - 1)
                 IN  At(im, srcX + im.minX, srcY + im.minY)
         IN  [err |-> NoError, img |-> FromPoints(0, 0, targetWidth, targetHeight, P)]

-----------------------------------------------------------------------------
(* Zoom and pixelation *)

\* progress counted from the frame after.
ProgressOffByOne(frameIdx, fc) == IF fc = 1 THEN RInt(1) ELSE Rat(frameIdx + 1, fc - 1)

\* progress := float64(frameIdx) / float64(frameCount-1), 0 for one frame.
Progress(frameIdx, fc) == IF fc = 1 THEN RInt(0) ELSE Rat(frameIdx, fc - 1)

\* draw.Draw(result, result.Bounds(), img, bounds.Min, draw.Src): a copy.
CopyImage(im) == im

\* applyZoom(dst, src, zoom) on a fresh dst with the bounds of src, for a
\* rational zoom > 1: the centred region of 1 / zoom of the source, sampled
\* by nearest neighbour.
applyZoom(src, zoom) ==
    LET srcWidth == RInt(src.w)
        srcHeight == RInt(src.h)
        srcRegionWidth == RDiv(srcWidth, zoom)
        srcRegionHeight == RDiv(srcHeight, zoom)
        srcMinX == RSub(Rat(src.w, 2), RDiv(srcRegionWidth, RInt(2)))
        srcMinY == RSub(Rat(src.h, 2), RDiv(srcRegionHeight, RInt(2)))
        P(px, py) ==
            LET x == px - src.minX
                y == py - src.minY
                srcX == RAdd(srcMinX, RMul(Rat(x, src.w), srcRegionWidth))
                srcY == RAdd(srcMinY, RMul(Rat(y, src.h), srcRegionHeight))
                srcXInt == RFloor(srcX) + src.minX
                srcYInt == RFloor(srcY) + src.minY
            IN  IF InBounds(src, srcXInt, srcYInt)
                THEN At(src, srcXInt, srcYInt)
                ELSE Transparent
    IN  FromPoints(src.minX, src.minY, src.w, src.h, P)

Max2(a, b) == IF a > b THEN a ELSE b

\* The sum of channel ch of the pixels of im at the points of S.
RECURSIVE SumChannel(_, _, _)
SumChannel(im, S, ch) ==
    IF S = {} THEN 0
    ELSE LET p == CHOOSE q \in S : TRUE
         IN  At(im, p[1], p[2])[ch] + SumChannel(im, S \ {p}, ch)

\* A pixelation that fills every block with the pixel of its first corner
\* instead of the mean of the block.
applyPixelateCorner(src, blockSize) ==
    LET blocksX == RCeil(RDiv(RInt(src.w), blockSize))
        blocksY == RCeil(RDiv(RInt(src.h), blockSize))
        Start(n, lo) == Max2(RFloor(RMul(RInt(n), blockSize)), lo)
        End(n, hi) == Min2(RFloor(RMul(RInt(n + 1), blockSize)), hi)
        P(x, y) ==
            LET bxs == {n \in 0..(blocksX - 1) :
                          Start(n, src.minX) <= x /\ x < End(n, src.minX + src.w)}
                bys == {n \in 0..(blocksY - 1) :
                          Start(n, src.minY) <= y /\ y < End(n, src.minY + src.h)}
            IN  IF bxs = {} \/ bys = {} THEN Transparent
                ELSE At(src, Start(CHOOSE n \in bxs : TRUE, src.minX),
                             Start(CHOOSE n \in bys : TRUE, src.minY))
    IN  FromPoints(src.minX, src.minY, src.w, src.h, P)

\* applyPixelate(dst, src, blockSize) on a fresh dst with the bounds of src,
\* for a rational blockSize > 1: block number n of an axis runs from
\* int(n * blockSize) to int((n + 1) * blockSize), clamped to the bounds, and
\* every pixel of a block becomes the truncated channel-wise mean of the block.
applyPixelate(src, blockSize) ==
    LET blocksX == RCeil(RDiv(RInt(src.w), blockSize))
        blocksY == RCeil(RDiv(RInt(src.h), blockSize))
        Start(n, lo) == Max2(RFloor(RMul(RInt(n), blockSize)), lo)
        End(n, hi) == Min2(RFloor(RMul(RInt(n + 1), blockSize)), hi)
        P(x, y) ==
            LET bxs == {n \in 0..(blocksX - 1) :
                          Start(n, src.minX) <= x /\ x < End(n, src.minX + src.w)}
                bys == {n \in 0..(blocksY - 1) :
                          Start(n, src.minY) <= y /\ y < End(n, src.minY + src.h)}
            IN  IF bxs = {} \/ bys = {} THEN Transparent
                ELSE LET blockX == CHOOSE n \in bxs : TRUE
                         blockY == CHOOSE n \in bys : TRUE
                         S == (Start(blockX, src.minX)..(End(blockX, src.minX + src.w) - 1))
                              \X (Start(blockY, src.minY)..(End(blockY, src.minY + src.h) - 1))
                         pixelCount == Cardinality(S)
                     IN  <<SumChannel(src, S, 1) \div pixelCount,
                           SumChannel(src, S, 2) \div pixelCount,
                           SumChannel(src, S, 3) \div pixelCount,
                           SumChannel(src, S, 4) \div pixelCount>>
    IN  FromPoints(src.minX, src.minY, src.w, src.h, P)

-----------------------------------------------------------------------------
(* Kaleidoscope and ripple.  Both compute, for the destination point (x, y),
   srcX := int(cx + distance * math.Cos(angle)) and srcY likewise with
   math.Sin, from math.Atan2, math.Sqrt (and math.Mod or math.Sin) of the
   point.  The value of these float64 expressions is not computed here:
   coords is the displacement <<srcX - x, srcY - y>> they arrive at, one for
   all points of a call. *)

NoDisplacement == <<0, 0>>

\* applyKaleidoscope(dst, src, cx, cy, rotationAngle) on a fresh dst with
\* the bounds of src: a point whose source point is outside the bounds is
\* left as it is.
applyKaleidoscope(src, d) ==
    LET P(x, y) ==
            LET srcX == x + d[1]
                srcY == y + d[2]
            IN  IF /\ x >= 0 /\ x < src.w /\ y >= 0 /\ y < src.h
                   /\ InBounds(src, srcX, srcY)
                THEN At(src, srcX, srcY)
                ELSE Transparent
    IN  FromPoints(src.minX, src.minY, src.w, src.h, P)

\* math.Max(lo, math.Min(hi, v)) on integers.
Clamp(v, lo, hi) == IF v < lo THEN lo ELSE IF v > hi THEN hi ELSE v

\* applyRipple with its result allocated at the origin instead of at the
\* bounds of the source.
applyRippleAtOrigin(src, d) == NewRGBA(0, 0, src.w, src.h)

\* applyRipple(dst, src, cx, cy, phase, maxDistance) on a fresh dst with the
\* bounds of src: a source point outside the bounds is moved to the nearest
\* point of the bounds, axis by axis.
applyRipple(src, d) ==
    LET P(x, y) ==
            LET srcX == x + d[1]
                srcY == y + d[2]
            IN  IF x >= 0 /\ x < src.w /\ y >= 0 /\ y < src.h
                THEN IF InBounds(src, srcX, srcY)
                     THEN At(src, srcX, srcY)
                     ELSE At(src, Clamp(srcX, src.minX, src.minX + src.w - 1),
                                  Clamp(srcY, src.minY, src.minY + src.h - 1))
                ELSE Transparent
    IN  FromPoints(src.minX, src.minY, src.w, src.h, P)

-----------------------------------------------------------------------------
(* applyEffectToFrame *)

\* A rotation that skips the check of the "360" case.
SquareCheckSkipped(width, height) == FALSE

\* if width != height: the "360" case returns an error.
NotSquare(width, height) == width # height

\* The case labels of the switch.
EffectCases ==
    {"360", "hue", "zoom", "pixelate", "tint-rgb", "vibes", "kaleidoscope", "ripple"}

\* The angle with the frame count off by one.
hueShiftOffByOne(frameIdx, fc) == Rat(frameIdx * 360, fc + 1)

\* hueShift := float64(frameIdx) * 360.0 / float64(frameCount) of the "hue"
\* case, and hue of the "tint-rgb" case.
hueShift(frameIdx, fc) == Rat(frameIdx * 360, fc)

\* A zoom that ends at 5 instead of 6.
zoomFactorToFive(frameIdx, fc) == RAdd(RInt(1), RMul(RInt(4), Progress(frameIdx, fc)))

\* zoom := minZoom + (maxZoom-minZoom)*progress of the "zoom" case.
zoomFactor(frameIdx, fc) == RAdd(RInt(1), RMul(RInt(5), Progress(frameIdx, fc)))

\* blockSize := minBlockSize + (maxBlockSize-minBlockSize)*progress of the
\* "pixelate" case.
blockSize(width, height, frameIdx, fc) ==
    RAdd(RInt(1), RMul(RSub(RMin(Rat(width, 4), Rat(height, 4)), RInt(1)),
                       Progress(frameIdx, fc)))

\* A dispatch whose default case hands back the image as it is.
applyEffectToFrameLenient(im, subcommand, frameIdx, fc) ==
    CASE subcommand = "360" ->
           IF NotSquare(im.w, im.h)
           THEN [err |-> "image must be square", width |-> im.w, height |-> im.h]
           ELSE [err |-> NoError,
                 img |-> drawRotatedImage(im, im.w, im.w, TwelfthTurns(frameIdx, fc))]
      [] subcommand = "hue" ->
           [err |-> NoError, img |-> applyHueShift(im, hueShift(frameIdx, fc))]
      [] subcommand = "zoom" ->
           [err |-> NoError,
            img |-> IF RLeq(zoomFactor(frameIdx, fc), RInt(1)) THEN CopyImage(im)
                    ELSE applyZoom(im, zoomFactor(frameIdx, fc))]
      [] subcommand = "pixelate" ->
           [err |-> NoError,
            img |-> IF RLeq(blockSize(im.w, im.h, frameIdx, fc), RInt(1)) THEN CopyImage(im)
                    ELSE applyPixelate(im, blockSize(im.w, im.h, frameIdx, fc))]
      [] subcommand = "tint-rgb" ->
           [err |-> NoError, img |-> applyTint(im, hueShift(frameIdx, fc))]
      [] subcommand = "vibes" ->
           [err |-> NoError, img |-> applyVibes(im, frameIdx)]
      [] subcommand = "kaleidoscope" ->
           [err |-> NoError, img |-> applyKaleidoscope(im, coords)]
      [] subcommand = "ripple" ->
           [err |-> NoError, img |-> applyRipple(im, coords)]
      [] subcommand \notin EffectCases ->
           [err |-> NoError, img |-> CopyImage(im)]

\* The result of one effect on one frame: an error, or the image drawn into
\* a fresh RGBA of the same bounds.
applyEffectToFrame(im, subcommand, frameIdx, fc) ==
    CASE subcommand = "360" ->
           IF NotSquare(im.w, im.h)
           THEN [err |-> "image must be square", width |-> im.w, height |-> im.h]
           ELSE [err |-> NoError,
                 img |-> drawRotatedImage(im, im.w, im.w, TwelfthTurns(frameIdx, fc))]
      [] subcommand = "hue" ->
           [err |-> NoError, img |-> applyHueShift(im, hueShift(frameIdx, fc))]
      [] subcommand = "zoom" ->
           [err |-> NoError,
            img |-> IF RLeq(zoomFactor(frameIdx, fc), RInt(1)) THEN CopyImage(im)
                    ELSE applyZoom(im, zoomFactor(frameIdx, fc))]
      [] subcommand = "pixelate" ->
           [err |-> NoError,
            img |-> IF RLeq(blockSize(im.w, im.h, frameIdx, fc), RInt(1)) THEN CopyImage(im)
                    ELSE applyPixelate(im, blockSize(im.w, im.h, frameIdx, fc))]
      [] subcommand = "tint-rgb" ->
           [err |-> NoError, img |-> applyTint(im, hueShift(frameIdx, fc))]
      [] subcommand = "vibes" ->
           [err |-> NoError, img |-> applyVibes(im, frameIdx)]
      [] subcommand = "kaleidoscope" ->
           [err |-> NoError, img |-> applyKaleidoscope(im, coords)]
      [] subcommand = "ripple" ->
           [err |-> NoError, img |-> applyRipple(im, coords)]
      [] subcommand \notin EffectCases ->
           [err |-> "unknown subcommand", name |-> subcommand]

-----------------------------------------------------------------------------
(* generateRotateFrames *)

\* The image with its bounds moved to the origin: drawRotatedImage reads
\* src.At(srcX + srcBounds.Min.X, srcY + srcBounds.Min.Y).
AtOrigin(im) == MkImage(0, 0, im.w, im.h, im.pix)

\* generateRotateFrames(img, direction, frameCount), direction 1 or -1:
\* the error for a non-square image, the panic of make([]*image.Paletted,
\* frameCount) for a negative frameCount, else the frames rotated by
\* i * 2 * pi / frameCount * direction and quantized.
generateRotateFrames(im, direction, fc) ==
    IF im.w # im.h
    THEN [err |-> "image must be square", width |-> im.w, height |-> im.h]
    ELSE IF fc < 0
    THEN [err |-> NoError, panic |-> "makeslice: len out of range"]
    ELSE [err |-> NoError,
          frames |-> [n \in 1..fc |->
                        Quantize(drawRotatedImage(AtOrigin(im), im.w, im.w,
                                                  direction * TwelfthTurns(n - 1, fc)),
                                 createPalette(im))]]

-----------------------------------------------------------------------------
(* main: the reversal loop and the delay *)

\* A reversal loop that forgets to move j.
RECURSIVE ReverseLoopFixedJ(_, _, _)
ReverseLoopFixedJ(fr, a, b) ==
    IF a < b
    THEN ReverseLoopFixedJ([fr EXCEPT ![a + 1] = fr[b + 1], ![b + 1] = fr[a + 1]], a + 1, b)
    ELSE fr

\* A reversal loop that stops one swap early.
RECURSIVE ReverseLoopShort(_, _, _)
ReverseLoopShort(fr, a, b) ==
    IF a + 2 < b
    THEN ReverseLoopShort([fr EXCEPT ![a + 1] = fr[b + 1], ![b + 1] = fr[a + 1]], a + 1, b - 1)
    ELSE fr

\* for i, j := 0, len(frames)-1; i < j; i, j = i+1, j-1 { swap }
RECURSIVE ReverseLoop(_, _, _)
ReverseLoop(fr, a, b) ==
    IF a < b
    THEN ReverseLoop([fr EXCEPT ![a + 1] = fr[b + 1], ![b + 1] = fr[a + 1]], a + 1, b - 1)
    ELSE fr

ReverseFrames(fr) == ReverseLoop(fr, 0, Len(fr) - 1)

\* A delay that is never below one hundredth.
delayAtLeastOne(r) == Max2(1, RRound(Rat(100, r)))

\* A delay that rounds 100 / rate up.
delayCeiling(r) == RCeil(Rat(100, r))

\* A delay that truncates 100 / rate.
delayTruncated(r) == 100 \div r

\* int(math.Round(100.0 / float64(rate)))
delayPerFrame(r) == RRound(Rat(100, r))

-----------------------------------------------------------------------------
(* main: validation of the command line *)

validSubcommands ==
    {"360", "hue", "zoom", "pixelate", "tint-rgb", "vibes", "kaleidoscope", "ripple"}

\* The first argument that is no subcommand, NoError when there is none.
RECURSIVE FirstUnknown(_, _)
FirstUnknown(args, n) ==
    IF n > Len(args) THEN NoError
    ELSE IF args[n] \notin validSubcommands THEN args[n]
    ELSE FirstUnknown(args, n + 1)

\* A validation that lets a negative resize width pass.
ValidationNoResizeCheck(args, fc, r, rs) ==
    IF Len(args) < 1 THEN [err |-> "at least one subcommand is required"]
    ELSE IF FirstUnknown(args, 1) # NoError
         THEN [err |-> "Unknown subcommand", name |-> FirstUnknown(args, 1)]
    ELSE IF fc <= 0 THEN [err |-> "Number of frames must be positive"]
    ELSE IF r <= 0 THEN [err |-> "Frame rate must be positive"]
    ELSE [err |-> NoError]

\* A validation that lets an empty list of subcommands pass.
ValidationNoArgsCheck(args, fc, r, rs) ==
    IF FirstUnknown(args, 1) # NoError
    THEN [err |-> "Unknown subcommand", name |-> FirstUnknown(args, 1)]
    ELSE IF fc <= 0 THEN [err |-> "Number of frames must be positive"]
    ELSE IF r <= 0 THEN [err |-> "Frame rate must be positive"]
    ELSE IF rs < 0 THEN [err |-> "Resize width must be non-negative"]
    ELSE [err |-> NoError]

\* The checks of main before the image is loaded, in order; NoError when all pass.
ValidationError(args, fc, r, rs) ==
    IF Len(args) < 1 THEN [err |-> "at least one subcommand is required"]
    ELSE IF FirstUnknown(args, 1) # NoError
         THEN [err |-> "Unknown subcommand", name |-> FirstUnknown(args, 1)]
    ELSE IF fc <= 0 THEN [err |-> "Number of frames must be positive"]
    ELSE IF r <= 0 THEN [err |-> "Frame rate must be positive"]
    ELSE IF rs < 0 THEN [err |-> "Resize width must be non-negative"]
    ELSE [err |-> NoError]

-----------------------------------------------------------------------------
(* The inputs of a run *)

MaxChain == 2
MaxFrames == 3
MaxResize == 5

\* The effect names that occur on the command line, and a name that is no
\* effect.
ChainNames == {"360", "vibes", "bogus"}

RECURSIVE SeqsUpTo(_, _)
SeqsUpTo(S, n) ==
    IF n = 0 THEN {<<>>}
    ELSE LET shorter == SeqsUpTo(S, n - 1)
         IN  shorter \cup {Append(q, e) : q \in {t \in shorter : Len(t) = n - 1}, e \in S}

Chains == SeqsUpTo(ChainNames, MaxChain)

\* Frame counts: the invalid ones and those whose rotation angles are
\* multiples of a twelfth of a turn.
FrameCounts == {n \in -1..MaxFrames : n <= 0 \/ 12 % n = 0}

\* The invalid rate 0; 100 / rate rounds down for 3, is an integer for 4 and
\* is a half for 8.
Rates == {0, 3, 4, 8}

\* Resize widths: the invalid one, none, one that shrinks and one that keeps
\* or enlarges.
Resizes == {-1, 0, 1, MaxResize}

\* Source images: pixel (x, y) holds colour number (x + 3 * y) % 5.
SourceColours == <<Red, Green, Blue, White, Grey>>

SourceImage(w, h) ==
    LET P(x, y) == SourceColours[((x + 3 * y) % 5) + 1]
    IN  FromPoints(0, 0, w, h, P)

\* What image.Decode finds: an image, or bytes that are no PNG or JPEG.
Sources ==
    {[ok |-> TRUE, img |-> SourceImage(5, 5)],
     [ok |-> TRUE, img |-> SourceImage(2, 3)],
     [ok |-> TRUE, img |-> SourceImage(5, 3)],
     [ok |-> FALSE]}

-----------------------------------------------------------------------------
(* main as a state machine *)

NoCalls == [load |-> 0, resize |-> 0, palette |-> 0, effect |-> 0, encode |-> 0]

Init ==
    /\ pc = "validate"
    /\ subcommands \in Chains
    /\ frameCount \in FrameCounts
    /\ rate \in Rates
    /\ reverse \in BOOLEAN
    /\ resize \in Resizes
    /\ source \in Sources
    /\ img = Nil
    /\ palette = NoPalette
    /\ frames = <<>>
    /\ i = 0
    /\ k = 1
    /\ currentImg = Nil
    /\ anim = Nil
    /\ output = Nil
    /\ stderr = Nil
    /\ calls = NoCalls
    /\ lib = Nil
    /\ coords = NoDisplacement

\* What a run never changes: the flags, the input stream (and lib, which a
\* run does not use).
Inputs == <<subcommands, frameCount, rate, reverse, resize, source, lib, coords>>

\* An error that is reported while the run goes on to the encoder.
ReportAndGoOn(e) == pc' = "write" /\ stderr' = e

\* os.Exit(1) after an error message.
Exit(e) == pc' = "exit" /\ stderr' = e

\* Lines 27-69: the checks of the command line.
Validate ==
    /\ pc = "validate"
    /\ LET e == ValidationError(subcommands, frameCount, rate, resize)
       IN  IF e.err # NoError THEN Exit(e) ELSE pc' = "load" /\ stderr' = stderr
    /\ UNCHANGED <<Inputs, img, palette, frames, i, k, currentImg, anim, output, calls>>

\* Lines 71-82: loadImage / loadImageFromReader.
Load ==
    /\ pc = "load"
    /\ calls' = [calls EXCEPT !.load = @ + 1]
    /\ IF source.ok
       THEN pc' = "resize" /\ img' = source.img /\ stderr' = stderr
       ELSE Exit([err |-> "Error loading image"]) /\ img' = img
    /\ UNCHANGED <<Inputs, palette, frames, i, k, currentImg, anim, output>>

\* Lines 84-91: the optional resize.
Resize ==
    /\ pc = "resize"
    /\ IF resize > 0
       THEN LET r == resizeImage(img, resize)
            IN  /\ calls' = [calls EXCEPT !.resize = @ + 1]
                /\ IF r.err # NoError
                   THEN Exit([err |-> "Error resizing image", cause |-> r.err]) /\ img' = img
                   ELSE pc' = "palette" /\ img' = r.img /\ stderr' = stderr
       ELSE pc' = "palette" /\ UNCHANGED <<img, stderr, calls>>
    /\ UNCHANGED <<Inputs, palette, frames, i, k, currentImg, anim, output>>

\* A palette built from the image as it was loaded.
CreatePaletteOfSource ==
    /\ pc = "palette"
    /\ frames' = [n \in 1..frameCount |-> Nil]
    /\ palette' = createPalette(source.img)
    /\ calls' = [calls EXCEPT !.palette = @ + 1]
    /\ i' = 0
    /\ pc' = "frame"
    /\ UNCHANGED <<Inputs, img, k, currentImg, anim, output, stderr>>

\* Lines 94-95: the frames slice and the palette.
CreatePalette ==
    /\ pc = "palette"
    /\ frames' = [n \in 1..frameCount |-> Nil]
    /\ palette' = createPalette(img)
    /\ calls' = [calls EXCEPT !.palette = @ + 1]
    /\ i' = 0
    /\ pc' = "frame"
    /\ UNCHANGED <<Inputs, img, k, currentImg, anim, output, stderr>>

\* A loop head that goes on from the image of the frame before.
FrameStartCarriesOn ==
    /\ pc = "frame"
    /\ i < frameCount
    /\ currentImg' = IF i = 0 THEN img ELSE currentImg
    /\ k' = 1
    /\ pc' = "effects"
    /\ UNCHANGED <<Inputs, img, palette, frames, i, anim, output, stderr, calls>>

\* Lines 97-99: the head of the frame loop.
FrameStart ==
    /\ pc = "frame"
    /\ i < frameCount
    /\ currentImg' = img
    /\ k' = 1
    /\ pc' = "effects"
    /\ UNCHANGED <<Inputs, img, palette, frames, i, anim, output, stderr, calls>>

\* The pass of the loop with an effect that writes its result into the base
\* image as well.
ApplyEffectInPlace ==
    /\ pc = "effects"
    /\ k <= Len(subcommands)
    /\ LET r == applyEffectToFrame(currentImg, subcommands[k], i, frameCount)
       IN  IF r.err # NoError
           THEN /\ Exit([err |-> "Error applying effect", subcommand |-> subcommands[k],
                         frame |-> i, cause |-> r])
                /\ UNCHANGED <<currentImg, k, img>>
           ELSE /\ currentImg' = r.img
                /\ img' = r.img
                /\ k' = k + 1
                /\ UNCHANGED <<pc, stderr>>
    /\ calls' = [calls EXCEPT !.effect = @ + 1]
    /\ UNCHANGED <<Inputs, palette, frames, i, anim, output>>

\* Lines 102-109: one pass of the loop over the subcommands.
ApplyEffect ==
    /\ pc = "effects"
    /\ k <= Len(subcommands)
    /\ LET r == applyEffectToFrame(currentImg, subcommands[k], i, frameCount)
       IN  IF r.err # NoError
           THEN /\ Exit([err |-> "Error applying effect", subcommand |-> subcommands[k],
                         frame |-> i, cause |-> r])
                /\ UNCHANGED <<currentImg, k>>
           ELSE /\ currentImg' = r.img
                /\ k' = k + 1
                /\ UNCHANGED <<pc, stderr>>
    /\ calls' = [calls EXCEPT !.effect = @ + 1]
    /\ UNCHANGED <<Inputs, img, palette, frames, i, anim, output>>

\* Lines 111-118: the frame is converted to RGBA, quantized and stored.
StoreFrame ==
    /\ pc = "effects"
    /\ k > Len(subcommands)
    /\ frames' = [frames EXCEPT ![i + 1] = Quantize(currentImg, palette)]
    /\ i' = i + 1
    /\ pc' = "frame"
    /\ UNCHANGED <<Inputs, img, palette, k, currentImg, anim, output, stderr, calls>>

\* Lines 121-126: the optional reversal, after the last frame.
Reverse ==
    /\ pc = "frame"
    /\ i >= frameCount
    /\ frames' = IF reverse THEN ReverseFrames(frames) ELSE frames
    /\ pc' = "anim"
    /\ UNCHANGED <<Inputs, img, palette, i, k, currentImg, anim, output, stderr, calls>>

\* Lines 128-139: the gif.GIF and its delays.
BuildAnim ==
    /\ pc = "anim"
    /\ anim' = [Image |-> frames,
                Delay |-> [n \in 1..Len(frames) |-> delayPerFrame(rate)]]
    /\ pc' = "write"
    /\ UNCHANGED <<Inputs, img, palette, frames, i, k, currentImg, output, stderr, calls>>

\* Lines 141-153: writeGIF / writeGIFToWriter; the encoder may fail.
Write ==
    /\ pc = "write"
    /\ calls' = [calls EXCEPT !.encode = @ + 1]
    /\ \E ok \in BOOLEAN :
          IF ok
          THEN /\ output' = [complete |-> TRUE, anim |-> anim]
               /\ pc' = "done"
               /\ stderr' = stderr
          ELSE /\ output' = [complete |-> FALSE]
               /\ Exit([err |-> "Error writing GIF"])
    /\ UNCHANGED <<Inputs, img, palette, frames, i, k, currentImg, anim>>

Next ==
    \/ Validate
    \/ Load
    \/ Resize
    \/ CreatePalette
    \/ FrameStart
    \/ ApplyEffect
    \/ StoreFrame
    \/ Reverse
    \/ BuildAnim
    \/ Write

Spec == Init /\ [][Next]_vars

-----------------------------------------------------------------------------
(* Functions called on their own: the reversal loop and createPalette *)

MaxSeq == 4
MaxReversals == 2
MaxDim == 6

\* The state of main outside a run.
IdleMain ==
    /\ pc = "lib"
    /\ subcommands = <<>> /\ frameCount = 0 /\ rate = 0 /\ reverse = FALSE
    /\ resize = 0 /\ source = [ok |-> FALSE]
    /\ img = Nil /\ palette = NoPalette /\ frames = <<>> /\ i = 0 /\ k = 1
    /\ currentImg = Nil /\ anim = Nil /\ output = Nil /\ stderr = Nil
    /\ calls = NoCalls

Idle == IdleMain /\ coords = NoDisplacement

RunVars == <<pc, subcommands, frameCount, rate, reverse, resize, source, img,
             palette, frames, i, k, currentImg, anim, output, stderr, calls, coords>>

\* Three different frames.
TestFrames ==
    {Quantize(SourceImage(1, 1), <<Red>>),
     Quantize(SourceImage(2, 1), <<Red, Green>>),
     Quantize(SourceImage(1, 2), <<White, Black>>)}

InitReverse ==
    /\ Idle
    /\ \E q \in SeqsUpTo(TestFrames, MaxSeq) :
          lib = [fn |-> "reverse", arg |-> q, res |-> q, n |-> 0]

\* The reversal loop of main applied to the result of the last application.
ReverseAgain ==
    /\ lib.fn = "reverse"
    /\ lib.n < MaxReversals
    /\ lib' = [lib EXCEPT !.res = ReverseFrames(@), !.n = @ + 1]
    /\ UNCHANGED RunVars

SpecReverse == InitReverse /\ [][ReverseAgain]_vars

\* Images for createPalette.  PatternImage is SourceImage at other bounds.
PatternImage(minX, minY, w, h) ==
    LET P(x, y) == SourceColours[((x + 3 * y) % 5) + 1]
    IN  FromPoints(minX, minY, w, h, P)

\* An image whose sampled points (every SampleStep-th of a row and of a
\* column) hold many colours: sample number s (row-major, from 0) holds
\* colour number s - s \div 4, so that every fourth sample repeats the colour
\* before it; the points between the samples hold one more colour.
RampColour(c) == <<c % 256, c \div 256, 7, 255>>
Unsampled == <<1, 2, 3, 4>>

RampImage(w, h) ==
    LET cols == (w + SampleStep - 1) \div SampleStep
        P(x, y) == IF x % SampleStep = 0 /\ y % SampleStep = 0
                   THEN LET s == (x \div SampleStep) + cols * (y \div SampleStep)
                        IN  RampColour(s - (s \div 4))
                   ELSE Unsampled
    IN  FromPoints(0, 0, w, h, P)

\* 18 rows of 21 samples with 284 colours, the 256th of them in the middle of
\* a row; 17 rows of 20 samples, the last of which holds the 256th colour;
\* 16 rows of 21 samples with 253 colours.
PaletteImages ==
    {PatternImage(m[1], m[2], w, h) :
        m \in {<<0, 0>>, <<-1, 2>>, <<3, 1>>}, w \in 0..MaxDim, h \in 0..MaxDim}
    \cup {RampImage(81, 69), RampImage(77, 65), RampImage(81, 61)}

InitPalette ==
    /\ Idle
    /\ \E im \in PaletteImages :
          lib = [fn |-> "createPalette", arg |-> im, res |-> NoPalette, n |-> 0]

CallCreatePalette ==
    /\ lib.fn = "createPalette"
    /\ lib.n = 0
    /\ lib' = [lib EXCEPT !.res = createPalette(lib.arg), !.n = 1]
    /\ UNCHANGED RunVars

SpecPalette == InitPalette /\ [][CallCreatePalette]_vars

-----------------------------------------------------------------------------
(* Functions called on their own: applyEffectToFrame and generateRotateFrames *)

MaxEffectFrames == 4
MaxShift == 1
EffectDim == 4
\* A frame count that does not divide 360, for the angles of hue and tint-rgb.
HueFrames == 7

\* Colours of which some are translucent (premultiplied alpha).
MixedColours == <<Red, <<100, 50, 20, 128>>, Blue, <<200, 100, 50, 255>>,
                  Transparent, <<33, 66, 99, 255>>, <<9, 9, 9, 10>>>>

MixedImage(minX, minY, w, h) ==
    LET P(x, y) == MixedColours[((2 * x + 3 * y) % 7) + 1]
    IN  FromPoints(minX, minY, w, h, P)

\* Squares of cell x cell points, white and black in turn.
Checkerboard(w, h, cell) ==
    LET P(x, y) == IF ((x \div cell) + (y \div cell)) % 2 = 0 THEN White ELSE Black
    IN  FromPoints(0, 0, w, h, P)

SolidImage(w, h, c) ==
    LET P(x, y) == c
    IN  FromPoints(0, 0, w, h, P)

\* Images of every shape up to EffectDim (a side of 0 included) at the
\* origin, some at other origins, and larger ones: squares of 5, 6 and 8,
\* the 8 x 8 checkerboards, and images twice as high as wide and the other
\* way round.
EffectImages ==
    {MixedImage(0, 0, w, h) : w \in 1..EffectDim, h \in 0..EffectDim}
    \cup {PatternImage(-1, 2, 2, 3), PatternImage(3, 1, 5, 5), MixedImage(2, 0, 3, 3)}
    \cup {PatternImage(0, 0, 5, 5), PatternImage(0, 0, 6, 6), MixedImage(0, 0, 8, 8)}
    \cup {Checkerboard(8, 8, 1), Checkerboard(8, 8, 2), Checkerboard(8, 8, 4)}
    \cup {MixedImage(0, 0, 8, 16), MixedImage(0, 0, 12, 5)}

Displacements == {<<a, b>> : a \in -MaxShift..MaxShift, b \in -MaxShift..MaxShift}

\* Names that are no case of the switch: a wrong case, the empty name, the
\* name of a flag and other words.
OtherNames == {"bogus", "", "HUE", "rotate", "-reverse"}

\* A call of applyEffectToFrame(im, name, idx, fc).  frameCount <= 0 is
\* tried with "vibes", which does not compute with it; the other cases
\* divide by it in float64.
InitEffect ==
    /\ IdleMain
    /\ \E im \in EffectImages, name \in EffectCases \cup OtherNames,
          fc \in (-1..MaxEffectFrames) \cup {HueFrames} :
          \E idx \in 0..(IF fc > 0 THEN fc - 1 ELSE 0) :
             /\ fc <= 0 => name = "vibes"
             /\ fc > MaxEffectFrames => name \in {"hue", "tint-rgb"}
             /\ (name = "360" /\ fc > 0) => 12 % fc = 0
             /\ lib = [fn |-> "applyEffectToFrame", im |-> im, name |-> name,
                       idx |-> idx, fc |-> fc, dir |-> 1, res |-> Nil, n |-> 0]
             /\ coords \in IF name \in {"kaleidoscope", "ripple"}
                           THEN Displacements ELSE {NoDisplacement}

\* A call of generateRotateFrames(im, dir, fc).
InitRotateFrames ==
    /\ IdleMain
    /\ coords = NoDisplacement
    /\ \E im \in {PatternImage(0, 0, 5, 5), PatternImage(3, 1, 5, 5),
                  MixedImage(0, 0, 4, 4), MixedImage(0, 0, 2, 3)},
          dir \in {1, -1}, fc \in -1..MaxEffectFrames :
             /\ fc > 0 => 12 % fc = 0
             /\ lib = [fn |-> "generateRotateFrames", im |-> im, name |-> "360",
                       idx |-> 0, fc |-> fc, dir |-> dir, res |-> Nil, n |-> 0]

CallEffect ==
    /\ lib.fn = "applyEffectToFrame"
    /\ lib.n = 0
    /\ lib' = [lib EXCEPT !.res = applyEffectToFrame(lib.im, lib.name, lib.idx, lib.fc),
                          !.n = 1]
    /\ UNCHANGED RunVars

CallGenerateRotateFrames ==
    /\ lib.fn = "generateRotateFrames"
    /\ lib.n = 0
    /\ lib' = [lib EXCEPT !.res = generateRotateFrames(lib.im, lib.dir, lib.fc), !.n = 1]
    /\ UNCHANGED RunVars

NextEffect == CallEffect \/ CallGenerateRotateFrames

SpecEffect == (InitEffect \/ InitRotateFrames) /\ [][NextEffect]_vars

-----------------------------------------------------------------------------
(* Properties of a run *)

Range(q) == {q[n] : n \in DOMAIN q}

ValidationMessages ==
    {"at least one subcommand is required", "Unknown subcommand",
     "Number of frames must be positive", "Frame rate must be positive",
     "Resize width must be non-negative"}

\* C1: for frameCount > 0 and rate > 0 the encoder is handed exactly
\* frameCount frames and frameCount delays, and every delay is 100 / rate
\* rounded to the nearest integer (halves up), whatever the chain and
\* whether or not the frames were reversed.
C1_FramesAndDelays ==
    anim # Nil =>
        /\ frameCount > 0 /\ rate > 0
        /\ Len(anim.Image) = frameCount
        /\ Len(anim.Delay) = frameCount
        /\ \A n \in 1..frameCount :
              /\ anim.Image[n] # Nil
              /\ 2 * rate * anim.Delay[n] > 200 - rate
              /\ 2 * rate * anim.Delay[n] <= 200 + rate

C1_Witness ==
    /\ pc = "done" /\ output.complete
    /\ reverse /\ frameCount = 3 /\ rate = 8 /\ Len(subcommands) = 2
    /\ anim.Delay = <<13, 13, 13>>

\* C2: when "360" is anywhere in the chain and the image the effects read is
\* not square, the run stops in frame 0 with an error that carries the width
\* and the height; no frame is stored and the encoder is never called.
NonSquareRotate ==
    /\ "360" \in Range(subcommands)
    /\ calls.palette > 0
    /\ img.w # img.h

C2_RotateNonSquareAborts ==
    NonSquareRotate =>
        /\ pc \in {"frame", "effects", "exit"}
        /\ i = 0
        /\ \A n \in DOMAIN frames : frames[n] = Nil
        /\ anim = Nil /\ output = Nil /\ calls.encode = 0
        /\ pc = "effects" => "360" \in {subcommands[n] : n \in k..Len(subcommands)}
        /\ pc = "exit" =>
              /\ stderr.err = "Error applying effect"
              /\ stderr.subcommand = "360"
              /\ stderr.frame = 0
              /\ stderr.cause.err = "image must be square"
              /\ stderr.cause.width = img.w
              /\ stderr.cause.height = img.h

C2_Witness ==
    /\ NonSquareRotate
    /\ pc = "exit"
    /\ Len(subcommands) = 2 /\ subcommands[1] # "360" /\ subcommands[2] = "360"
    /\ resize > 0 /\ img # source.img
    /\ frameCount > 1

\* C3: a validation failure (an unknown effect name, frameCount <= 0,
\* rate <= 0 or resize < 0) is reported before any image work: nothing is
\* loaded, resized, no palette is built and no frame is generated.
InvalidFlags ==
    \/ \E n \in DOMAIN subcommands : subcommands[n] \notin validSubcommands
    \/ frameCount <= 0
    \/ rate <= 0
    \/ resize < 0

C3_ValidationBeforeImageWork ==
    InvalidFlags =>
        /\ pc \in {"validate", "exit"}
        /\ pc = "exit" => stderr.err \in ValidationMessages
        /\ calls = NoCalls
        /\ img = Nil /\ palette = NoPalette /\ frames = <<>> /\ currentImg = Nil
        /\ anim = Nil /\ output = Nil

C3_Witness ==
    /\ pc = "exit"
    /\ stderr.err = "Resize width must be non-negative"
    /\ source.ok
    /\ Len(subcommands) = 2

\* C4: a failure before encoding (validation, decoding, resizing or an
\* effect) ends the run without output: the encoder is never called and
\* nothing is written.
C4_NoOutputOnFailure ==
    (stderr # Nil /\ stderr.err # "Error writing GIF") =>
        /\ pc = "exit"
        /\ output = Nil
        /\ anim = Nil
        /\ calls.encode = 0

C4_Witness ==
    /\ pc = "exit"
    /\ stderr.err = "Error applying effect"
    /\ subcommands[1] = "vibes"
    /\ calls.effect = 2
    /\ output = Nil

\* C5: reversing a sequence of frames twice gives back the sequence, frame
\* by frame, for every length.
C5_ReverseTwice ==
    (lib.fn = "reverse" /\ lib.n % 2 = 0) => lib.res = lib.arg

C5_Witness ==
    /\ lib.fn = "reverse" /\ lib.n = 2
    /\ Len(lib.arg) = 3
    /\ lib.arg[1] # lib.arg[3]
    /\ lib.res = lib.arg

\* The image of frame frameIdx: the effects of the chain applied in order,
\* each to the result of the one before, starting from im.
RECURSIVE ApplyChain(_, _, _, _)
ApplyChain(im, chain, frameIdx, fc) ==
    IF chain = <<>> THEN im
    ELSE ApplyChain(applyEffectToFrame(im, Head(chain), frameIdx, fc).img,
                    Tail(chain), frameIdx, fc)

\* The image the effects read: the decoded image, resized when resize > 0.
BaseImage == IF resize > 0 THEN resizeImage(source.img, resize).img ELSE source.img

FrameOf(frameIdx) ==
    Quantize(ApplyChain(BaseImage, subcommands, frameIdx, frameCount),
             createPalette(BaseImage))

Reversed == pc \in {"anim", "write", "done"} \/ calls.encode > 0

\* C6: after the reversal step position n of the sequence holds the frame
\* generated at index frameCount - 1 - n when reversal was requested and the
\* frame generated at index n when it was not; pixels and palette of every
\* frame are as generated, none is lost and none occurs twice.
C6_ReversalOrder ==
    Reversed =>
        /\ Len(frames) = frameCount
        /\ \A n \in 0..(frameCount - 1) :
              frames[n + 1] = FrameOf(IF reverse THEN frameCount - 1 - n ELSE n)

C6_Witness ==
    /\ pc = "done" /\ reverse /\ frameCount = 3
    /\ frames[1] # frames[2] /\ frames[2] # frames[3] /\ frames[1] # frames[3]
    /\ frames[1] = FrameOf(2)

\* C7: the palette is built once, after the resize and before the first
\* frame, from the image the effects read; it stays as built, and every
\* stored frame carries it.
C7_OnePalette ==
    /\ calls.palette <= 1
    /\ calls.palette = 0 =>
          /\ palette = NoPalette
          /\ calls.effect = 0
          /\ currentImg = Nil
          /\ \A n \in DOMAIN frames : frames[n] = Nil
    /\ calls.palette = 1 =>
          /\ calls.resize = (IF resize > 0 THEN 1 ELSE 0)
          /\ img = BaseImage
          /\ palette = createPalette(img)
          /\ \A n \in DOMAIN frames : frames[n] # Nil => frames[n].palette = palette

C7_Witness ==
    /\ pc = "done" /\ resize > 0 /\ frameCount = 3 /\ reverse
    /\ palette # createPalette(source.img)
    /\ Len(palette) > 1
    /\ \A n \in 1..3 : frames[n].palette = palette

\* The colours createPalette looks at: those of the points whose offsets
\* from the bounds minimum are multiples of SampleStep in both axes, row by
\* row.
SampleCols(im) == (im.w + SampleStep - 1) \div SampleStep
SampleRows(im) == (im.h + SampleStep - 1) \div SampleStep

Samples(im) ==
    [n \in 1..(SampleCols(im) * SampleRows(im)) |->
        At(im, im.minX + SampleStep * ((n - 1) % SampleCols(im)),
               im.minY + SampleStep * ((n - 1) \div SampleCols(im)))]

\* C8: createPalette returns between 1 and 256 colours, no colour twice; the
\* colours are those of the sampled points in the order in which the
\* row-major scan first sees them, cut after the 256th; an image without
\* points gives <<white, black>>.
C8_Palette ==
    (lib.fn = "createPalette" /\ lib.n = 1) =>
        LET im == lib.arg
            res == lib.res
            S == Samples(im)
            Firsts == {n \in DOMAIN S : \A m \in 1..(n - 1) : S[m] # S[n]}
            Rank == [n \in Firsts |-> Cardinality({m \in Firsts : m < n})]
        IN  /\ Len(res) >= 1 /\ Len(res) <= 256
            /\ \A a, b \in DOMAIN res : a # b => res[a] # res[b]
            /\ (im.w = 0 \/ im.h = 0) => res = <<White, Black>>
            /\ (im.w > 0 /\ im.h > 0) =>
                  /\ Len(res) = Min2(Cardinality(Firsts), 256)
                  /\ \A n \in Firsts : Rank[n] < 256 => res[Rank[n] + 1] = S[n]

C8_Witness ==
    /\ lib.fn = "createPalette" /\ lib.n = 1
    /\ Len(lib.res) = 256
    /\ lib.arg.h = 69
    /\ Unsampled \notin Range(lib.res)
    /\ RampColour(255) \in Range(lib.res)
    /\ RampColour(256) \notin Range(lib.res)

\* C9: in every frame the inner loop holds the result of applying the first
\* effects of the chain, in order, to the base image with the index of that
\* frame, and every stored frame is the quantized result of the whole chain
\* for its own index: it depends on no other frame.
C9_FrameComposition ==
    /\ pc = "effects" =>
          currentImg = ApplyChain(BaseImage, SubSeq(subcommands, 1, k - 1), i, frameCount)
    /\ pc \in {"frame", "effects"} =>
          \A n \in 1..Len(frames) :
              IF n <= i THEN frames[n] = FrameOf(n - 1) ELSE frames[n] = Nil

C9_Witness ==
    /\ pc = "frame" /\ i = 3 /\ frameCount = 3
    /\ subcommands = <<"360", "vibes">>
    /\ frames[1] # frames[2] /\ frames[2] # frames[3] /\ frames[1] # frames[3]
    /\ frames[2] # Quantize(ApplyChain(BaseImage, <<"vibes", "360">>, 1, 3), palette)

\* C10 as claimed: an empty list of effects is accepted and every frame is
\* the quantized base image.
C10_EmptyChainIsIdentity ==
    (subcommands = <<>> /\ frameCount > 0 /\ rate > 0 /\ resize >= 0 /\ source.ok) =>
        /\ ~(pc = "exit" /\ stderr.err \in ValidationMessages)
        /\ pc = "done" =>
              /\ Len(frames) = frameCount
              /\ \A n \in 1..frameCount : frames[n] = Quantize(BaseImage, palette)

\* C10 amended: an empty list of effects is rejected by the validation of
\* the command line; the run reports that a subcommand is required and ends
\* before the image is loaded, and no frame is produced.
C10_EmptyChainRejected ==
    subcommands = <<>> =>
        /\ pc \in {"validate", "exit"}
        /\ pc = "exit" => stderr.err = "at least one subcommand is required"
        /\ calls = NoCalls
        /\ img = Nil /\ frames = <<>> /\ anim = Nil /\ output = Nil

C10_Witness ==
    /\ subcommands = <<>> /\ pc = "exit"
    /\ frameCount > 0 /\ rate > 0 /\ resize >= 0 /\ source.ok
    /\ stderr.err = "at least one subcommand is required"

-----------------------------------------------------------------------------
(* hsvToRGB and rgbToHSV called on their own *)

\* The hues where one sector of hsvToRGB ends and the next begins, and the
\* hues in the middle of the sectors.
SectorHues == {60 * n : n \in 0..5}
Hues == SectorHues \cup {60 * n + 30 : n \in 0..5}

\* Saturations and values.
Fractions == {<<0, 1>>, <<1, 2>>, <<1, 1>>}

\* hsvToRGB(h, s, v) followed by rgbToHSV of its result.
InitColour ==
    /\ Idle
    /\ \E h \in Hues, s \in Fractions, v \in Fractions :
          lib = [fn |-> "hsvToRGB", h |-> RInt(h), s |-> s, v |-> v,
                 rgb |-> <<0, 0, 0>>, hsv |-> <<RInt(0), RInt(0), RInt(0)>>, n |-> 0]

CallHsvToRGB ==
    /\ lib.n = 0
    /\ lib' = [lib EXCEPT !.rgb = hsvToRGB(lib.h, lib.s, lib.v), !.n = 1]
    /\ UNCHANGED RunVars

CallRgbToHSV ==
    /\ lib.n = 1
    /\ lib' = [lib EXCEPT !.hsv = rgbToHSV(lib.rgb[1], lib.rgb[2], lib.rgb[3]), !.n = 2]
    /\ UNCHANGED RunVars

NextColour == CallHsvToRGB \/ CallRgbToHSV

SpecColour == InitColour /\ [][NextColour]_vars

-----------------------------------------------------------------------------
(* applyTintToRegion and applyTint called on one pixel *)

MaxChannel == 255

\* An image of one pixel whose channels all depend on srcC, and a tint
\* colour whose channels all depend on tintC.
PixelOf(srcC) ==
    MkImage(0, 0, 1, 1, <<<<srcC, MaxChannel - srcC, (srcC * 7) % (MaxChannel + 1),
                           (srcC * 3) % (MaxChannel + 1)>>>>)

TintOf(tintC) == <<tintC, tintC, MaxChannel - tintC, MaxChannel>>

\* applyTintToRegion(dst, src, tintColor, 0, 1, 0, 1) on a pixel, then
\* applyTint(dst, src, 0) on the same pixel.
InitBlend ==
    /\ Idle
    /\ \E srcC \in 0..MaxChannel, tintC \in 0..MaxChannel :
          lib = [fn |-> "applyTintToRegion", src |-> PixelOf(srcC), tint |-> TintOf(tintC),
                 region |-> PixelOf(srcC), red |-> PixelOf(srcC), n |-> 0]

CallApplyTintToRegion ==
    /\ lib.n = 0
    /\ lib' = [lib EXCEPT !.region = applyTintToRegion(NewRGBA(0, 0, 1, 1), lib.src,
                                                       lib.tint, 0, 1, 0, 1),
                          !.n = 1]
    /\ UNCHANGED RunVars

CallApplyTint ==
    /\ lib.n = 1
    /\ lib' = [lib EXCEPT !.red = applyEffectToFrame(lib.src, "tint-rgb", 0, 1).img, !.n = 2]
    /\ UNCHANGED RunVars

NextBlend == CallApplyTintToRegion \/ CallApplyTint

SpecBlend == InitBlend /\ [][NextBlend]_vars

-----------------------------------------------------------------------------
(* main with every rate up to MaxRate *)

MaxRate == 250

\* Runs of main on a small image with the chain vibes, 1 or 2 frames and
\* every rate from 0 to MaxRate.
InitRate ==
    /\ img = Nil /\ palette = NoPalette /\ frames = <<>> /\ i = 0 /\ k = 1
    /\ currentImg = Nil /\ anim = Nil /\ output = Nil /\ stderr = Nil
    /\ calls = NoCalls
    /\ coords = NoDisplacement
    /\ lib = Nil
    /\ pc = "validate"
    /\ subcommands = <<"vibes">>
    /\ frameCount \in {1, 2}
    /\ rate \in 0..MaxRate
    /\ reverse = FALSE
    /\ resize = 0
    /\ source = [ok |-> TRUE, img |-> SourceImage(2, 3)]

SpecRate == InitRate /\ [][Next]_vars

-----------------------------------------------------------------------------
(* resizeImage called on its own *)

MaxSrcDim == 4
MaxWidth == 6

\* Source images of every shape from 0 x 0 to MaxSrcDim x MaxSrcDim, at the
\* origin and away from it.
ResizeImages ==
    {PatternImage(0, 0, w, h) : w \in 0..MaxSrcDim, h \in 0..MaxSrcDim}
    \cup {PatternImage(-2, 3, w, h) : w \in 1..MaxSrcDim, h \in 1..MaxSrcDim}

\* A call of resizeImage(im, width) with width > 0, as main makes it.
InitResize ==
    /\ Idle
    /\ \E im \in ResizeImages, width \in 1..MaxWidth :
          lib = [fn |-> "resizeImage", im |-> im, width |-> width, res |-> Nil, n |-> 0]

CallResizeImage ==
    /\ lib.n = 0
    /\ lib' = [lib EXCEPT !.res = resizeImage(lib.im, lib.width), !.n = 1]
    /\ UNCHANGED RunVars

SpecResize == InitResize /\ [][CallResizeImage]_vars

-----------------------------------------------------------------------------
(* main on images of one colour with the chain "hue" *)

HueSide == 64

Cyan == <<0, 255, 255, 255>>

\* Runs of main on a HueSide x HueSide image of one colour, with the single
\* effect hue, 2 or 4 frames and 2 frames a second.
InitHue ==
    /\ img = Nil /\ palette = NoPalette /\ frames = <<>> /\ i = 0 /\ k = 1
    /\ currentImg = Nil /\ anim = Nil /\ output = Nil /\ stderr = Nil
    /\ calls = NoCalls
    /\ coords = NoDisplacement
    /\ lib = Nil
    /\ pc = "validate"
    /\ subcommands = <<"hue">>
    /\ frameCount \in {2, 4}
    /\ rate = 2
    /\ reverse \in BOOLEAN
    /\ resize = 0
    /\ source \in {[ok |-> TRUE, img |-> SolidImage(HueSide, HueSide, c)] :
                      c \in {Red, Green, Blue, Grey}}

SpecHue == InitHue /\ [][Next]_vars

-----------------------------------------------------------------------------
(* Properties of the functions called on their own *)

EffectCalled == lib.fn = "applyEffectToFrame" /\ lib.n = 1

RotateFramesCalled == lib.fn = "generateRotateFrames" /\ lib.n = 1

\* C11: a frame-generating function called with frameCount <= 0 reports
\* that the number of frames must be positive; it does not compute an
\* image, panic, or return an empty list of frames.
C11_CoreRevalidates ==
    ((EffectCalled \/ RotateFramesCalled) /\ lib.fc <= 0) =>
        lib.res.err = "Number of frames must be positive"

SameBounds(a, b) ==
    /\ a.minX = b.minX /\ a.minY = b.minY /\ a.w = b.w /\ a.h = b.h
    /\ Len(a.pix) = a.w * a.h

\* C12: hue, zoom, pixelate, tint-rgb, vibes, kaleidoscope and ripple, on an
\* image of any width and height, return no error and an image with the
\* bounds of the input; so does 360 on a square image.
C12_BoundsPreserved ==
    (/\ EffectCalled
     /\ lib.name \in EffectCases
     /\ lib.name = "360" => lib.im.w = lib.im.h) =>
        /\ lib.res.err = NoError
        /\ SameBounds(lib.res.img, lib.im)

C12_Witness ==
    /\ EffectCalled
    /\ lib.name = "ripple" /\ coords = <<1, -1>>
    /\ lib.im.w = 2 /\ lib.im.h = 3 /\ lib.im.minX = -1
    /\ lib.res.err = NoError
    /\ SameBounds(lib.res.img, lib.im)
    /\ lib.res.img # lib.im

-----------------------------------------------------------------------------
(* Properties of a run: the base image, the hue scenario, the duration *)

HueCalled == EffectCalled /\ lib.name \in {"hue", "tint-rgb"} /\ lib.fc > 0

\* C14: the angle of hue and of tint-rgb at frame index i is i * 360 /
\* frameCount exactly: 0 at index 0, in [0, 360) for every index below
\* frameCount, and the angle at index i + frameCount is the angle at index i
\* modulo 360; the returned image is the hue shift, or the tint, by that angle.
C14_HueAngle ==
    HueCalled =>
        LET a == hueShift(lib.idx, lib.fc)
        IN  /\ a[1] * lib.fc = lib.idx * 360 * a[2]
            /\ lib.idx = 0 => a = RInt(0)
            /\ RLeq(RInt(0), a) /\ RLess(a, RInt(360))
            /\ RMod(hueShift(lib.idx + lib.fc, lib.fc), 360) = a
            /\ lib.res.img = IF lib.name = "hue" THEN applyHueShift(lib.im, a)
                             ELSE applyTint(lib.im, a)

C14_Witness ==
    /\ HueCalled
    /\ lib.name = "tint-rgb" /\ lib.fc = HueFrames /\ lib.idx = 3
    /\ hueShift(lib.idx, lib.fc) = <<1080, 7>>
    /\ lib.im.w = 3 /\ lib.im.h = 2
    /\ lib.res.img # lib.im

\* The colours of the pixels of a stored frame.
FrameColours(f) == {f.palette[f.pix[n] + 1] : n \in DOMAIN f.pix}

\* The colours of an image.
ImageColours(im) == Range(im.pix)

HueScenario ==
    /\ subcommands = <<"hue">> /\ frameCount = 4 /\ rate = 2 /\ ~reverse
    /\ source.ok /\ source.img = SolidImage(HueSide, HueSide, Red)

\* C15: for a solid red image, the chain hue, 4 frames and rate 2, the
\* frames handed to the encoder show red shifted by 0, 90, 180 and 270
\* degrees in that order (red itself in frame 0, cyan in frame 2), and every
\* delay is 50.
C15_HueScenario ==
    (HueScenario /\ pc = "done") =>
        /\ Len(frames) = 4
        /\ \A n \in 1..4 :
              FrameColours(frames[n]) =
                  ImageColours(applyHueShift(source.img, RInt(90 * (n - 1))))
        /\ FrameColours(frames[1]) = {Red}
        /\ FrameColours(frames[3]) = {Cyan}
        /\ anim.Delay = <<50, 50, 50, 50>>

\* What the run of C15 produces: the hue shift by 180 degrees turns red into
\* cyan, but the palette of the red image holds red only, so every frame
\* handed to the encoder is red.
C15_AllFramesRed ==
    /\ HueScenario /\ pc = "done"
    /\ \A n \in 1..4 : FrameColours(frames[n]) = {Red}
    /\ palette = <<Red>>
    /\ ImageColours(applyHueShift(source.img, RInt(180))) = {Cyan}
    /\ anim.Delay = <<50, 50, 50, 50>>

-----------------------------------------------------------------------------
(* Properties of pixelate *)

PixelateCalled == EffectCalled /\ lib.name = "pixelate" /\ lib.fc > 0

\* C16: pixelate with frameCount = 1, and pixelate at frame index 0 with any
\* frameCount, has progress 0 and blockSize 1 and returns a copy of its
\* input: the same bounds and the same pixel at every point.
C16_PixelateIdentity ==
    (PixelateCalled /\ (lib.fc = 1 \/ lib.idx = 0)) =>
        /\ Progress(lib.idx, lib.fc) = RInt(0)
        /\ blockSize(lib.im.w, lib.im.h, lib.idx, lib.fc) = RInt(1)
        /\ lib.res.err = NoError
        /\ SameBounds(lib.res.img, lib.im)
        /\ \A x \in lib.im.minX..(lib.im.minX + lib.im.w - 1),
              y \in lib.im.minY..(lib.im.minY + lib.im.h - 1) :
              At(lib.res.img, x, y) = At(lib.im, x, y)

C16_Witness ==
    /\ PixelateCalled
    /\ lib.fc = 1 /\ lib.idx = 0
    /\ lib.im = Checkerboard(8, 8, 1)
    /\ lib.res.img = lib.im
    /\ applyPixelate(lib.im, RInt(2)) # lib.im

Column(im, x) == [y \in im.minY..(im.minY + im.h - 1) |-> At(im, x, y)]

Row(im, y) == [x \in im.minX..(im.minX + im.w - 1) |-> At(im, x, y)]

\* The image is a grid of 4 by 4 blocks of one colour each: three cuts
\* across and three cuts down can be placed so that no block holds two
\* colours, that is, at most three columns differ from the column to their
\* right and at most three rows from the row below.
IsGrid4(im) ==
    /\ im.w >= 4 /\ im.h >= 4
    /\ Cardinality({x \in im.minX..(im.minX + im.w - 2) :
                       Column(im, x) # Column(im, x + 1)}) <= 3
    /\ Cardinality({y \in im.minY..(im.minY + im.h - 2) :
                       Row(im, y) # Row(im, y + 1)}) <= 3

LastPixelateFrame == PixelateCalled /\ lib.fc >= 2 /\ lib.idx = lib.fc - 1

\* C17: for an image of any size and frameCount >= 2 the last frame of
\* pixelate is a grid of 4 blocks across and 4 blocks down, each of one
\* colour.
C17_LastFrameIsGrid4 ==
    LastPixelateFrame => (lib.res.err = NoError /\ IsGrid4(lib.res.img))

\* What pixelate returns for an image 8 wide and 16 high as its last frame:
\* blocks of 2 x 2, 4 across and 8 down.
C17_EightBlocksDown ==
    /\ LastPixelateFrame
    /\ lib.im.w = 8 /\ lib.im.h = 16
    /\ blockSize(8, 16, lib.idx, lib.fc) = RInt(2)
    /\ ~IsGrid4(lib.res.img)
    /\ Cardinality({y \in 0..14 : Row(lib.res.img, y) # Row(lib.res.img, y + 1)}) = 7

\* On a square image of side 8 the last frame is such a grid.
C17_SquareIsGrid4 ==
    /\ LastPixelateFrame
    /\ lib.im = MixedImage(0, 0, 8, 8)
    /\ ~IsGrid4(lib.im)
    /\ IsGrid4(lib.res.img)

\* The truncated mean of channel ch over the 2 x 2 block of im whose first
\* corner is (x, y).
Mean4(im, x, y, ch) ==
    (At(im, x, y)[ch] + At(im, x + 1, y)[ch]
     + At(im, x, y + 1)[ch] + At(im, x + 1, y + 1)[ch]) \div 4

CheckerboardCalled ==
    /\ PixelateCalled /\ lib.fc = 2
    /\ lib.im.w = 8 /\ lib.im.h = 8 /\ lib.im.minX = 0 /\ lib.im.minY = 0

-----------------------------------------------------------------------------
(* Properties of resizeImage *)

Resized == lib.n = 1 /\ lib.im.w > 0 /\ lib.im.h > 0

\* Every pixel of the result is the pixel of some point of the source.
CopiesSourcePixels(res, src) ==
    \A n \in DOMAIN res.pix :
        \E x \in src.minX..(src.minX + src.w - 1), y \in src.minY..(src.minY + src.h - 1) :
            res.pix[n] = At(src, x, y)

\* C19 as claimed: the result of resizeImage for a width W > 0 has width W
\* and height W * srcHeight / srcWidth rounded to the nearest integer, and
\* every pixel of it is a copy of a pixel inside the bounds of the source.
C19_HeightRounded ==
    Resized =>
        /\ lib.res.err = NoError
        /\ lib.res.img.w = lib.width
        /\ lib.res.img.h = RRound(Rat(lib.width * lib.im.h, lib.im.w))
        /\ CopiesSourcePixels(lib.res.img, lib.im)

\* C19 amended: the height is W * srcHeight / srcWidth truncated, the
\* integer n with n * srcWidth <= W * srcHeight < (n + 1) * srcWidth (which
\* is 0 when W * srcHeight < srcWidth); the result is at the origin, has
\* width W, and every pixel of it is a copy of a pixel inside the bounds of
\* the source.
C19_HeightTruncated ==
    Resized =>
        /\ lib.res.err = NoError
        /\ lib.res.img.minX = 0 /\ lib.res.img.minY = 0
        /\ lib.res.img.w = lib.width
        /\ lib.res.img.h * lib.im.w <= lib.width * lib.im.h
        /\ lib.width * lib.im.h < (lib.res.img.h + 1) * lib.im.w
        /\ Len(lib.res.img.pix) = lib.width * lib.res.img.h
        /\ CopiesSourcePixels(lib.res.img, lib.im)

C19_Witness ==
    /\ Resized
    /\ lib.im.w = 2 /\ lib.im.h = 3 /\ lib.im.minX = -2
    /\ lib.width = 5
    /\ lib.res.img.h = 7
    /\ RRound(Rat(lib.width * lib.im.h, lib.im.w)) = 8
    /\ Range(lib.res.img.pix) = Range(lib.im.pix)

-----------------------------------------------------------------------------
(* The duration of the animation *)

RECURSIVE SumSeq(_)
SumSeq(q) == IF q = <<>> THEN 0 ELSE Head(q) + SumSeq(Tail(q))

C20_ExactAtRate4 ==
    /\ pc = "done" /\ frameCount = 3 /\ rate = 4
    /\ SumSeq(anim.Delay) = 75

-----------------------------------------------------------------------------
(* Sampling outside the source *)

Points(im) ==
    (im.minX..(im.minX + im.w - 1)) \X (im.minY..(im.minY + im.h - 1))

\* The point of the source that ripple reads for the point p: the displaced
\* point, moved to the nearest point of the bounds axis by axis.
ClampedSource(im, p) ==
    <<Clamp(p[1] + coords[1], im.minX, im.minX + im.w - 1),
      Clamp(p[2] + coords[2], im.minY, im.minY + im.h - 1)>>

\* C21: kaleidoscope and rotate leave a point whose source point is outside
\* the source at zero (for a quarter turn the source point of (x, y) is
\* (y, width - x), outside for x = 0); ripple leaves no point unset: every
\* point of its result holds the source pixel at the displaced point clamped
\* to the bounds.
C21_SamplingPolicy ==
    EffectCalled =>
        /\ lib.name = "kaleidoscope" =>
              \A p \in Points(lib.im) :
                  ~InBounds(lib.im, p[1] + coords[1], p[2] + coords[2]) =>
                      At(lib.res.img, p[1], p[2]) = Transparent
        /\ (lib.name = "360" /\ lib.im.w = lib.im.h /\ lib.fc = 4 /\ lib.idx = 1) =>
              \A p \in Points(lib.im) :
                  p[1] = 0 => At(lib.res.img, p[1], p[2]) = Transparent
        /\ lib.name = "ripple" =>
              \A p \in Points(lib.im) :
                  At(lib.res.img, p[1], p[2]) =
                      At(lib.im, ClampedSource(lib.im, p)[1], ClampedSource(lib.im, p)[2])

\* C21 for images whose bounds start at the origin.
C21_SamplingPolicyAtOrigin ==
    (lib.im.minX = 0 /\ lib.im.minY = 0) => C21_SamplingPolicy

\* A ripple on an image whose bounds start at (3, 1): the loops run over
\* 0..width-1 and 0..height-1, so the points to the right of x = 4 and below
\* y = 4 are never set.
C21_RippleLeavesUnset ==
    /\ EffectCalled /\ lib.name = "ripple"
    /\ lib.im = PatternImage(3, 1, 5, 5)
    /\ At(lib.res.img, 7, 5) = Transparent
    /\ \A p \in Points(lib.im) : At(lib.im, p[1], p[2]) # Transparent
    /\ \E p \in Points(lib.im) : At(lib.res.img, p[1], p[2]) # Transparent

-----------------------------------------------------------------------------
(* Properties of vibes *)

VibesCalled == EffectCalled /\ lib.name = "vibes" /\ lib.fc > 0

\* The quarter of the point p: 0 top-left, 1 top-right, 2 bottom-left,
\* 3 bottom-right, split at width / 2 and height / 2 (integer division).
QuarterOf(im, p) ==
    (IF p[1] - im.minX < im.w \div 2 THEN 0 ELSE 1)
    + (IF p[2] - im.minY < im.h \div 2 THEN 0 ELSE 2)

InRegion(reg, p) == p[1] >= reg[1] /\ p[1] < reg[2] /\ p[2] >= reg[3] /\ p[2] < reg[4]

QuarterColour(frameIdx, q) == VibesColors[((frameIdx + q) % 4) + 1]

\* C22: the four quarters of vibes are disjoint and cover the image (every
\* point lies in the region of exactly one quarter, its own); at frame i the
\* points of quarter q are the source pixels blended with colour number
\* (i + q) mod 4; the four quarters have four different colours; the colour
\* of quarter q at frame i + 1 is that of quarter (q + 1) mod 4 at frame i;
\* and frame i + 4 is frame i.
C22_VibesQuarters ==
    VibesCalled =>
        /\ \A p \in Points(lib.im) :
              /\ {q \in 0..3 : InRegion(QuarterRegion(lib.im, q), p)} = {QuarterOf(lib.im, p)}
              /\ At(lib.res.img, p[1], p[2]) =
                     Blend(At(lib.im, p[1], p[2]), QuarterColour(lib.idx, QuarterOf(lib.im, p)))
        /\ Cardinality({QuarterColour(lib.idx, q) : q \in 0..3}) = 4
        /\ \A q \in 0..3 : QuarterColour(lib.idx + 1, q) = QuarterColour(lib.idx, (q + 1) % 4)
        /\ applyEffectToFrame(lib.im, "vibes", lib.idx + 4, lib.fc).img = lib.res.img

C22_Witness ==
    /\ VibesCalled
    /\ lib.im.w = 3 /\ lib.im.h = 1 /\ lib.idx = 3 /\ lib.fc = 4
    /\ {QuarterOf(lib.im, p) : p \in Points(lib.im)} = {2, 3}
    /\ At(lib.res.img, 0, 0) = Blend(At(lib.im, 0, 0), VibesColors[2])
    /\ lib.res.img # lib.im

-----------------------------------------------------------------------------
(* Properties of the colour model *)

Yellow == <<255, 255, 0>>

\* The colour hsvToRGB is to give at a sector boundary, without alpha.
SectorColour(h) ==
    CASE h = 0 -> <<255, 0, 0>>
      [] h = 60 -> Yellow
      [] h = 120 -> <<0, 255, 0>>
      [] h = 180 -> <<0, 255, 255>>
      [] h = 240 -> <<0, 0, 255>>
      [] h = 300 -> <<255, 0, 255>>

AtSectorBoundary ==
    /\ lib.h[2] = 1 /\ lib.h[1] \in SectorHues
    /\ lib.s = RInt(1) /\ lib.v = RInt(1)

\* C23: for h in {0, 60, 120, 180, 240, 300}, s = 1 and v = 1, hsvToRGB
\* gives red, yellow, green, cyan, blue and magenta, and rgbToHSV of that
\* colour is (h, 1, 1) again.
C23_SectorRoundTrip ==
    AtSectorBoundary =>
        /\ lib.n >= 1 => lib.rgb = SectorColour(lib.h[1])
        /\ lib.n = 2 => lib.hsv = <<lib.h, RInt(1), RInt(1)>>

C23_Witness ==
    /\ AtSectorBoundary /\ lib.n = 2
    /\ lib.h = RInt(300)
    /\ lib.rgb = <<255, 0, 255>>
    /\ lib.hsv = <<RInt(300), RInt(1), RInt(1)>>

-----------------------------------------------------------------------------
(* Properties of the rotation *)

RotateCalled ==
    EffectCalled /\ lib.name = "360" /\ lib.fc > 0 /\ lib.im.w = lib.im.h

\* C24: the angle of frame i is i turns / frameCount times the direction:
\* frame 0 of "360" on a square image is a copy of the image, the frame at
\* index i + frameCount is the frame at index i, generateRotateFrames starts
\* with the quantized image itself, and with direction -1 its frame i is the
\* frame frameCount - i of direction 1.
C24_RotationAngles ==
    /\ RotateCalled =>
          /\ lib.res.err = NoError
          /\ lib.idx = 0 => lib.res.img = lib.im
          /\ applyEffectToFrame(lib.im, "360", lib.idx + lib.fc, lib.fc).img = lib.res.img
    /\ (RotateFramesCalled /\ lib.fc > 0 /\ lib.im.w = lib.im.h) =>
          /\ lib.res.err = NoError
          /\ Len(lib.res.frames) = lib.fc
          /\ lib.res.frames[1] = Quantize(AtOrigin(lib.im), createPalette(lib.im))
          /\ \A n \in 1..(lib.fc - 1) :
                generateRotateFrames(lib.im, -1, lib.fc).frames[n + 1] =
                    generateRotateFrames(lib.im, 1, lib.fc).frames[lib.fc - n + 1]

\* C24 for images whose bounds start at the origin.
C24_RotationAnglesAtOrigin ==
    (lib.im.minX = 0 /\ lib.im.minY = 0) => C24_RotationAngles

\* Frame 0 of "360" on a 5 x 5 image with bounds (3,1)-(8,6): only the
\* points of 0..4 x 0..4 inside the bounds are drawn, with the pixels of the
\* first columns and rows; the rest stays transparent.
C24_FrameZeroNotACopy ==
    /\ RotateCalled /\ lib.idx = 0
    /\ lib.im = PatternImage(3, 1, 5, 5)
    /\ lib.res.img # lib.im
    /\ At(lib.res.img, 7, 5) = Transparent
    /\ At(lib.res.img, 3, 1) = At(lib.im, 6, 2)

-----------------------------------------------------------------------------
(* Properties of zoom *)

ZoomCalled == EffectCalled /\ lib.name = "zoom" /\ lib.fc > 0

\* C25: the zoom factor of frame i is 1 + 5 * i / (frameCount - 1), and 1
\* when frameCount = 1: 1 at frame 0, 6 at the last frame of two or more,
\* never smaller than at the frame before; the call returns no error, and a
\* copy of the image whenever the factor is at most 1.
C25_ZoomFactor ==
    ZoomCalled =>
        LET z == zoomFactor(lib.idx, lib.fc)
        IN  /\ lib.res.err = NoError
            /\ lib.fc = 1 => z = RInt(1)
            /\ lib.fc > 1 => z[1] * (lib.fc - 1) = z[2] * ((lib.fc - 1) + 5 * lib.idx)
            /\ lib.idx = 0 => z = RInt(1)
            /\ (lib.fc > 1 /\ lib.idx = lib.fc - 1) => z = RInt(6)
            /\ lib.idx > 0 => RLeq(zoomFactor(lib.idx - 1, lib.fc), z)
            /\ RLeq(z, RInt(1)) => lib.res.img = lib.im

C25_Witness ==
    /\ ZoomCalled
    /\ lib.fc = 4 /\ lib.idx = 3
    /\ zoomFactor(lib.idx, lib.fc) = RInt(6)
    /\ lib.im = PatternImage(0, 0, 6, 6)
    /\ lib.res.img # lib.im
    /\ applyEffectToFrame(lib.im, "zoom", 0, 1).img = lib.im

-----------------------------------------------------------------------------
(* Properties of the blend *)

\* The channels of c: each the half of the sum of source and tint, rounded
\* down, and a value of 8 bits.
IsHalfBlend(c, src, tint) ==
    /\ \A ch \in 1..3 :
          /\ c[ch] \in 0..255
          /\ 2 * c[ch] <= src[ch] + tint[ch]
          /\ src[ch] + tint[ch] < 2 * c[ch] + 2
    /\ c[4] = src[4]

\* C26: applyTintToRegion, for every source and tint value of 8 bits, and
\* tint-rgb at frame index 0, whose tint is pure red, leave in every colour
\* channel source * 0.5 + tint * 0.5 rounded down, a value in 0..255, and
\* in alpha the alpha of the source.
C26_BlendInRange ==
    /\ lib.n >= 1 => IsHalfBlend(lib.region.pix[1], lib.src.pix[1], lib.tint)
    /\ lib.n = 2 => IsHalfBlend(lib.red.pix[1], lib.src.pix[1], <<255, 0, 0, 255>>)

C26_Witness ==
    /\ lib.n = 2
    /\ lib.src.pix[1][1] = 255 /\ lib.tint[1] = 255
    /\ lib.region.pix[1] = <<255, 127, 124, 253>>
    /\ lib.red.pix[1] = <<255, 0, 124, 253>>

-----------------------------------------------------------------------------
(* Properties of the dispatch *)

EightNames ==
    {"360", "hue", "zoom", "pixelate", "tint-rgb", "vibes", "kaleidoscope", "ripple"}

\* C27: applyEffectToFrame called with a name outside the eight names
\* returns the error "unknown subcommand" and no image; called with one of
\* the eight it does not; and the validation of the command line accepts a
\* name exactly when the dispatch has a case for it.
C27_DispatchClosed ==
    EffectCalled =>
        /\ lib.name \notin EightNames =>
              /\ lib.res.err = "unknown subcommand"
              /\ "img" \notin DOMAIN lib.res
        /\ lib.name \in EightNames =>
              /\ lib.res.err # "unknown subcommand"
              /\ lib.res.err = NoError => "img" \in DOMAIN lib.res
        /\ ValidationError(<<lib.name>>, 1, 1, 0).err = NoError <=> lib.name \in EightNames
        /\ ValidationError(<<lib.name>>, 1, 1, 0).err = "Unknown subcommand"
              <=> lib.res.err = "unknown subcommand"
        /\ validSubcommands = EffectCases

C27_Witness ==
    /\ EffectCalled
    /\ lib.name = "HUE"
    /\ lib.res = [err |-> "unknown subcommand", name |-> "HUE"]
    /\ ValidationError(<<"HUE">>, 1, 1, 0).err = "Unknown subcommand"
    /\ lib.im.w > 0 /\ lib.im.h > 0

-----------------------------------------------------------------------------
(* Properties of the stored frames *)

\* Every pixel of the frame is an index into the palette of the run.
FullyQuantized(f) ==
    /\ f.palette = palette
    /\ Len(f.pix) = f.w * f.h
    /\ \A n \in DOMAIN f.pix : f.pix[n] \in 0..(Len(palette) - 1)

\* C28: in every state every stored frame, and every frame handed to the
\* encoder, has the palette of the run and holds only indices below its
\* length, so every colour it shows is a colour of that palette, which is
\* the palette of the base image.
C28_FramesQuantized ==
    /\ \A n \in 1..Len(frames) : frames[n] # Nil => FullyQuantized(frames[n])
    /\ anim # Nil =>
          \A n \in 1..Len(anim.Image) :
              /\ FullyQuantized(anim.Image[n])
              /\ \A m \in DOMAIN anim.Image[n].pix :
                    palette[anim.Image[n].pix[m] + 1] \in Range(createPalette(BaseImage))

\* A frame of vibes, whose blended colours the source does not contain.
C28_Witness ==
    /\ pc = "done" /\ subcommands = <<"vibes">> /\ frameCount = 3
    /\ Len(palette) > 1
    /\ Range(ApplyChain(BaseImage, subcommands, 0, 3).pix) \cap Range(palette) = {}
    /\ FullyQuantized(anim.Image[1])
    /\ Cardinality(FrameColours(anim.Image[1])) > 1

-----------------------------------------------------------------------------
(* The delay over the range of rates *)

\* C29: a run with rate > 0 is not refused for its rate, and every delay of
\* its animation is in 0..100, at least 1 exactly when rate <= 200; with
\* rate > 200 the run still comes to its end, with all frames and delay 0.
C29_DelayRange ==
    rate > 0 =>
        /\ pc = "exit" => stderr.err \notin ValidationMessages
        /\ anim # Nil =>
              /\ Len(anim.Image) = frameCount /\ Len(anim.Delay) = frameCount
              /\ \A n \in 1..Len(anim.Delay) :
                    /\ anim.Delay[n] \in 0..100
                    /\ anim.Delay[n] >= 1 <=> rate <= 200
                    /\ rate > 200 => anim.Delay[n] = 0

C29_Witness ==
    /\ pc = "done" /\ rate = 201 /\ frameCount = 2
    /\ anim.Delay = <<0, 0>>
    /\ output # Nil
    /\ delayPerFrame(200) = 1 /\ delayPerFrame(1) = 100

-----------------------------------------------------------------------------
(* C30 *)

ResizeCalled == lib.fn = "resizeImage" /\ lib.n = 1

ZeroDimensions(im) == im.w = 0 \/ im.h = 0

\* C30: whenever resizeImage succeeds (source width and height non-zero,
\* target width > 0) the returned image has at least one pixel, that is a
\* height of at least 1, so the palette built from it holds colours of the
\* image and is not the {white, black} fallback; and resizeImage returns an
\* error, and no image, exactly when the source has zero width or height.
C30_ResultNotEmpty ==
    ResizeCalled =>
        /\ lib.res.err # NoError <=> ZeroDimensions(lib.im)
        /\ lib.res.err # NoError => "img" \notin DOMAIN lib.res
        /\ lib.res.err = NoError =>
              /\ lib.res.img.h >= 1
              /\ Len(lib.res.img.pix) >= 1
              /\ \A n \in DOMAIN createPalette(lib.res.img) :
                    \E m \in DOMAIN lib.res.img.pix :
                        createPalette(lib.res.img)[n] = lib.res.img.pix[m]

\* The part of C30 about the error: resizeImage returns an error, and no
\* image, exactly when the source has zero width or zero height.
C30_ErrorIffZeroDimensions ==
    ResizeCalled =>
        /\ lib.res.err # NoError <=> ZeroDimensions(lib.im)
        /\ lib.res.err # NoError => "img" \notin DOMAIN lib.res
        /\ lib.res.err = NoError =>
              lib.res.img.h >= 1 <=> lib.width * lib.im.h >= lib.im.w

\* A 4 x 1 source resized to width 1: resizeImage succeeds with an image of
\* height 0, which has no pixel, and the palette built from it is the
\* fallback.
C30_EmptyResult ==
    /\ ResizeCalled
    /\ lib.im.w = 4 /\ lib.im.h = 1 /\ lib.width = 1
    /\ lib.res.err = NoError
    /\ lib.res.img.w = 1 /\ lib.res.img.h = 0
    /\ lib.res.img.pix = <<>>
    /\ createPalette(lib.res.img) = <<White, Black>>

====
